---- MODULE Spec2Model ----
(***************************************************************************)
(* Model of AzureDevOpsExtractor (tools/data_ingestion/ado_analytics/      *)
(* ado.py): the retrying request wrapper __request_url and the pipeline    *)
(* format_work_items = get_work_items -> get_work_items_details ->         *)
(* parse_work_items -> gather(get_working_item_comments) -> close.         *)
(* One extractor instance, one asyncio event loop.  Every action is one    *)
(* uninterrupted run of a coroutine between two suspension points.         *)
(***************************************************************************)
EXTENDS Integers, Sequences, FiniteSets, TLC

\* ---- bounds of the model ------------------------------------------------
MaxItems == 2        \* longest listing the server answers with
MaxOutages == 2      \* transient failures (network errors, 503s) in one run

\* ---- program constants --------------------------------------------------
ShortBackoff == 5    \* asyncio.sleep(0.5), in tenths of a second
LongBackoff == 600   \* asyncio.sleep(60), in tenths of a second

Ids == {1, 2}
CommentCounts == {0, 1}
Stages == {"list", "detail", "comment"}

\* ---- the HTTP collaborator ----------------------------------------------
StatusCodes == {200, 404, 500, 503}
NetworkErrors == {"ConnectError", "ReadError"}
OtherTransportErrors == {"ConnectTimeout"}

\* What one attempt can end with: an exception raised by http_client.request,
\* or a response with a status code and a body that is or is not JSON.
Replies ==
    [exc : NetworkErrors \cup OtherTransportErrors, status : {0}, json : {FALSE}]
    \cup [exc : {"none"}, status : StatusCodes \ {200}, json : {FALSE}]
    \cup [exc : {"none"}, status : {200}, json : BOOLEAN]

\* The replies of the runs of the whole pipeline: a decoded body, both
\* transient failures and one hard status.
PipelineReplies ==
    {r \in Replies : \/ r.exc = "ConnectError"
                     \/ r.exc = "none" /\ r.status \in {404, 503}
                     \/ r.exc = "none" /\ r.status = 200 /\ r.json}

\* except httpx.NetworkError: the httpx classes that derive from NetworkError.
\* Timeouts derive from TimeoutException, a sibling of NetworkError.
IsNetworkError(reply) == reply.exc \in NetworkErrors

\* response.raise_for_status() raises HTTPStatusError
IsHTTPStatusError(reply) == reply.exc = "none" /\ reply.status # 200

IsTransient(reply) == IsNetworkError(reply) \/ (IsHTTPStatusError(reply) /\ reply.status = 503)

\* ---- values -------------------------------------------------------------
WiqlUrl == [kind |-> "wiql", id |-> 0]
ItemUrl(id) == [kind |-> "item", id |-> id]
CommentsUrl(id) == [kind |-> "comments", id |-> id]
AoaiUrl == [kind |-> "aoai", id |-> 0]

NoData == "none"
Query == "query"
NoBody == [kind |-> "none", url |-> WiqlUrl, id |-> 0, valid |-> FALSE]
NoReply == [exc |-> "pending", status |-> 0, json |-> FALSE]
NoError == [type |-> "none", status |-> 0]
NoWire == [method |-> "none", url |-> WiqlUrl, data |-> NoData, hasData |-> FALSE]
Unset == [set |-> FALSE, totalCount |-> 0, count |-> 0, comments |-> <<>>, url |-> WiqlUrl]

\* the keys of a comments body; a body can come without them
CommentKeys == {"totalCount", "count", "comments"}
Absent == -1

ItemRef(id) == [id |-> id, url |-> ItemUrl(id)]

RECURSIVE SeqsUpTo(_, _)
SeqsUpTo(S, n) ==
    IF n = 0 THEN {<<>>}
    ELSE LET shorter == SeqsUpTo(S, n - 1)
         IN shorter \cup {Append(s, x) : s \in {t \in shorter : Len(t) = n - 1}, x \in S}

\* The JSON bodies the server can answer a URL with.  A body carries the URL
\* it answers, so a result can be traced to the request that produced it.
Bodies(url) ==
    CASE url.kind = "wiql" ->
           {[kind |-> "listing", url |-> url, workItems |-> [i \in DOMAIN s |-> ItemRef(s[i])]] :
                s \in SeqsUpTo(Ids, MaxItems)}
      [] url.kind = "item" ->
           {[kind |-> "detail", url |-> url, id |-> url.id, valid |-> v] : v \in BOOLEAN}
      [] url.kind = "aoai" ->
           {[kind |-> "completion", url |-> url, choices |-> c] : c \in BOOLEAN}
      [] url.kind = "comments" ->
           {[kind |-> "comments", url |-> url, has |-> CommentKeys,
             totalCount |-> c, count |-> c, comments |-> [i \in 1..c |-> i]] : c \in CommentCounts}
           \cup {[kind |-> "comments", url |-> url, has |-> {},
                  totalCount |-> Absent, count |-> Absent, comments |-> <<>>]}

\* ---- dates and the WIQL filter ------------------------------------------
MaxDays == 10        \* longest window days_length asked for

\* A date as text, 'YYYY-MM-DD': its eight digits.
DateText(date) ==
    <<date.y \div 1000, (date.y \div 100) % 10, (date.y \div 10) % 10, date.y % 10,
      date.m \div 10, date.m % 10, date.d \div 10, date.d % 10>>

\* parser.parse of such a text
ParseDate(text) ==
    [y |-> text[1] * 1000 + text[2] * 100 + text[3] * 10 + text[4],
     m |-> text[5] * 10 + text[6],
     d |-> text[7] * 10 + text[8]]

IsLeap(y) == y % 4 = 0 /\ (y % 100 # 0 \/ y % 400 = 0)

DaysInMonth(y, m) ==
    IF m = 2 THEN (IF IsLeap(y) THEN 29 ELSE 28)
    ELSE IF m \in {4, 6, 9, 11} THEN 30 ELSE 31

RECURSIVE DaysBeforeMonth(_, _)
DaysBeforeMonth(y, m) == IF m = 1 THEN 0 ELSE DaysBeforeMonth(y, m - 1) + DaysInMonth(y, m - 1)

DaysBeforeYear(y) == (y - 1) * 365 + (y - 1) \div 4 - (y - 1) \div 100 + (y - 1) \div 400

\* datetime + timedelta adds the days to the proleptic ordinal of the date
\* and converts the sum back.
ToOrdinal(date) == DaysBeforeYear(date.y) + DaysBeforeMonth(date.y, date.m) + date.d

FromOrdinal(ordinal) ==
    LET n0 == ordinal - 1
        n400 == n0 \div 146097
        r400 == n0 % 146097
        n100 == r400 \div 36524
        r100 == r400 % 36524
        n4 == r100 \div 1461
        r4 == r100 % 1461
        n1 == r4 \div 365
        n == r4 % 365
        year == n400 * 400 + 1 + n100 * 100 + n4 * 4 + n1
        guess == (n + 50) \div 32
        before(m) == DaysBeforeMonth(year, m)
        month == IF before(guess) > n THEN guess - 1 ELSE guess
    IN IF n1 = 4 \/ n100 = 4
         THEN [y |-> year - 1, m |-> 12, d |-> 31]
         ELSE [y |-> year, m |-> month, d |-> n - before(month) + 1]

\* Variant: the end of the window is included.
WiqlQuery_inclusiveEnd(process_date, days_length) ==
    [lowerOp |-> ">=", lower |-> process_date,
     upperOp |-> "<=",
     upper |-> DateText(FromOrdinal(ToOrdinal(ParseDate(process_date)) + days_length))]

\* lines 135-142: the two conditions on System.ChangedDate.  The lower bound
\* is the text of process_date as given; the upper bound is max_date
\* formatted with %Y-%m-%d.
WiqlQuery(process_date, days_length) ==
    [lowerOp |-> ">=", lower |-> process_date,
     upperOp |-> "<",
     upper |-> DateText(FromOrdinal(ToOrdinal(ParseDate(process_date)) + days_length))]

NoQuery == [lowerOp |-> "none", lower |-> <<>>, upperOp |-> "none", upper |-> <<>>]

\* test_ado's call: process_date="2024-03-18", days_length=10
TestAdoArgs == [process_date |-> <<2, 0, 2, 4, 0, 3, 1, 8>>, days_length |-> 10]

\* the start dates and windows of the calls of get_work_items
StartDates ==
    {[y |-> y, m |-> m, d |-> d] : y \in {2023, 2024}, m \in {2, 3, 12}, d \in 1..31}
DateArgs ==
    {[process_date |-> DateText(date), days_length |-> n] :
        date \in {t \in StartDates : t.d <= DaysInMonth(t.y, t.m)}, n \in 0..MaxDays}

\* ---- QueryGenerator (tools/ai_queries/generate.py) ----------------------
RequiredKeys == {"database_name", "table_name"}

\* the arguments of send_request that prepare_request looks at: the keys of
\* db_params other than fields, the type of db_params["fields"], and whether
\* a programming language is given
PromptArgs ==
    [db_params : SUBSET RequiredKeys, fields : {"none", "str", "list"},
     programming_language : BOOLEAN]

\* ---- ado_function_poller (tools/ado_analytics/function_app.py) ----------
PollDays == 10       \* timedelta(days=10)

\* json_response["values"] by the kinds of its entries: the one-string sets
\* appended for uploaded items, the error dicts appended for failed uploads,
\* the error dict that stands for a day without work items
NoValues == [added |-> 0, failed |-> 0, empty |-> 0]
NoPoller == [pc |-> "idle", day |-> 0, visited |-> <<>>, values |-> NoValues,
             day_items |-> 0, day_done |-> 0, response |-> "none"]

\* What query_work_items and the uploads of one day can do: the query
\* raises, returns nothing, or returns work items, each of whose upload
\* succeeds or raises.
DayOutcomes ==
    {[query |-> q, uploads |-> <<>>] : q \in {"raises", "empty"}}
    \cup {[query |-> "items", uploads |-> u] : u \in SeqsUpTo({"ok", "fails"}, MaxItems) \ {<<>>}}

\* lines 51-69: the loop over the work items of a day
RECURSIVE UploadAll(_, _)
UploadAll(uploads, values) ==
    IF uploads = <<>> THEN values
    ELSE UploadAll(Tail(uploads),
                   IF Head(uploads) = "ok"
                     THEN [values EXCEPT !.added = @ + 1]
                     ELSE [values EXCEPT !.failed = @ + 1])

\* lines 46-78: the body of the while loop up to the end of the try statement
DayValues(outcome, values) ==
    CASE outcome.query = "raises" -> values
      [] outcome.query = "empty" -> [added |-> 0, failed |-> 0, empty |-> 1]
      [] OTHER -> UploadAll(outcome.uploads, values)

\* json.dumps(json_response): a set is not JSON serializable
Serializable(values) == values.added = 0

NoPromptArgs == [db_params |-> {}, fields |-> "none", programming_language |-> FALSE]
NoPrompt == <<>>
Messages == "messages"

\* Variant: the request is refused only when both keys are missing.
PrepareFails_any(args) == args.db_params \cap RequiredKeys = {}

\* if not all(key in db_params for key in ["database_name", "table_name"])
PrepareFails(args) == ~(\A key \in RequiredKeys : key \in args.db_params)

\* the sentences of the query request prepare_request returns
prepare_request(args) ==
    <<"prompt", "database">>
    \o (CASE args.fields = "str" -> <<"field">>
          [] args.fields = "list" -> <<"fields">>
          [] OTHER -> <<>>)
    \o (IF args.programming_language THEN <<"language">> ELSE <<>>)

VARIABLES
    pc,            \* where format_work_items is
    tasks,         \* per stage, the calls of __request_url, in submission order
    doneOrder,     \* per stage, the indices of finished calls, in completion order
    network,       \* the replies the network and the server can give in this run
    outages,       \* number of transient failures the network and server caused
    submitted,     \* per stage, the number of calls of __request_url made so far
    completed,     \* per stage, the number of calls that have returned a body
    reordered,     \* per stage, its gather returned after an out-of-order completion
    items_list,    \* get_work_items' return value
    items_details, \* get_work_items_details' return value
    work_items,    \* the objects parse_work_items created
    mapped,        \* parse_work_items has returned
    work_items_comments, \* the result of the comment gather
    closed,        \* http_client.aclose() has run
    closeCount,    \* number of calls of close
    returned,      \* the value format_work_items returned
    error,         \* the exception format_work_items raised
    left_running,  \* number of tasks not finished when a gather raised
    kwargs,        \* process_date and days_length of the call
    query,         \* the filter of the WIQL query get_work_items built
    prompt_args,   \* db_params and programming_language of send_request
    prompt_request, \* what prepare_request returned
    calls,         \* number of calls of format_work_items on the instance
    poller         \* the run of ado_function_poller

vars == <<pc, tasks, doneOrder, network, outages, submitted, completed, reordered, items_list, items_details, work_items, mapped,
          work_items_comments, closed, closeCount, returned, error, left_running, kwargs, query, prompt_args,
          prompt_request, calls, poller>>

\* ---- __request_url ------------------------------------------------------
\* A call of __request_url(url, method, data), not yet run.
NewCall(url, method, data) ==
    [url |-> url, method |-> method, data |-> data,
     arg |-> 0, st |-> "created", attempts |-> 0, failures |-> 0, frames |-> 0,
     wire |-> NoWire, last |-> NoReply, delay |-> 0,
     result |-> NoBody, err |-> NoError]

\* request_param as built on lines 99-105
RequestParam(call) ==
    [method |-> call.method, url |-> call.url,
     data |-> call.data, hasData |-> call.data # NoData]

\* Variant: the retry is a loop inside the one invocation.
Enter_loop(call) == [call EXCEPT !.frames = 1]

\* __request_url is invoked: by the caller, or by the handler of the
\* invocation below it, which stays suspended in its await.  frames is the
\* number of invocations of the call that have not ended.
Enter(call) == [call EXCEPT !.frames = @ + 1]

\* the invocation runs up to await self.http_client.request(**request_param)
Attempt(call) ==
    [Enter(call) EXCEPT !.st = "inflight", !.attempts = @ + 1,
                        !.last = NoReply, !.wire = RequestParam(call)]

\* Variants of the handlers: every 5xx status is retried; a 503 is raised
\* like any other status; a network error is given up on at the second
\* failure.
Handle_retry5xx(call, reply, body) ==
    LET seen == [call EXCEPT !.last = reply, !.delay = 0]
    IN IF IsNetworkError(reply)
         THEN [seen EXCEPT !.st = "sleep", !.delay = ShortBackoff, !.failures = @ + 1]
       ELSE IF reply.exc # "none"
         THEN [seen EXCEPT !.st = "raised", !.err = [type |-> reply.exc, status |-> 0]]
       ELSE IF IsHTTPStatusError(reply)
         THEN IF reply.status >= 500
                THEN [seen EXCEPT !.st = "sleep", !.delay = LongBackoff, !.failures = @ + 1]
                ELSE [seen EXCEPT !.st = "raised",
                                  !.err = [type |-> "HTTPStatusError", status |-> reply.status]]
       ELSE IF ~reply.json
         THEN [seen EXCEPT !.st = "raised", !.err = [type |-> "JSONDecodeError", status |-> 0]]
       ELSE [seen EXCEPT !.st = "returned", !.result = body]

Handle_raise503(call, reply, body) ==
    LET seen == [call EXCEPT !.last = reply, !.delay = 0]
    IN IF IsNetworkError(reply)
         THEN [seen EXCEPT !.st = "sleep", !.delay = ShortBackoff, !.failures = @ + 1]
       ELSE IF reply.exc # "none"
         THEN [seen EXCEPT !.st = "raised", !.err = [type |-> reply.exc, status |-> 0]]
       ELSE IF IsHTTPStatusError(reply)
         THEN [seen EXCEPT !.st = "raised",
                           !.err = [type |-> "HTTPStatusError", status |-> reply.status]]
       ELSE IF ~reply.json
         THEN [seen EXCEPT !.st = "raised", !.err = [type |-> "JSONDecodeError", status |-> 0]]
       ELSE [seen EXCEPT !.st = "returned", !.result = body]

Handle_giveUp(call, reply, body) ==
    LET seen == [call EXCEPT !.last = reply, !.delay = 0]
    IN IF IsNetworkError(reply) /\ call.failures = 0
         THEN [seen EXCEPT !.st = "sleep", !.delay = ShortBackoff, !.failures = @ + 1]
       ELSE IF reply.exc # "none"
         THEN [seen EXCEPT !.st = "raised", !.err = [type |-> reply.exc, status |-> 0]]
       ELSE IF IsHTTPStatusError(reply)
         THEN IF reply.status = 503
                THEN [seen EXCEPT !.st = "sleep", !.delay = LongBackoff, !.failures = @ + 1]
                ELSE [seen EXCEPT !.st = "raised",
                                  !.err = [type |-> "HTTPStatusError", status |-> reply.status]]
       ELSE IF ~reply.json
         THEN [seen EXCEPT !.st = "raised", !.err = [type |-> "JSONDecodeError", status |-> 0]]
       ELSE [seen EXCEPT !.st = "returned", !.result = body]

\* Variant: a 503 is slept on like a network error.
Handle_flatBackoff(call, reply, body) ==
    LET seen == [call EXCEPT !.last = reply, !.delay = 0]
    IN IF IsNetworkError(reply)
         THEN [seen EXCEPT !.st = "sleep", !.delay = ShortBackoff, !.failures = @ + 1]
       ELSE IF reply.exc # "none"
         THEN [seen EXCEPT !.st = "raised", !.err = [type |-> reply.exc, status |-> 0]]
       ELSE IF IsHTTPStatusError(reply)
         THEN IF reply.status = 503
                THEN [seen EXCEPT !.st = "sleep", !.delay = ShortBackoff, !.failures = @ + 1]
                ELSE [seen EXCEPT !.st = "raised",
                                  !.err = [type |-> "HTTPStatusError", status |-> reply.status]]
       ELSE IF ~reply.json
         THEN [seen EXCEPT !.st = "raised", !.err = [type |-> "JSONDecodeError", status |-> 0]]
       ELSE [seen EXCEPT !.st = "returned", !.result = body]

\* Variant: every exception of the request is handled like a network error.
Handle_catchAll(call, reply, body) ==
    LET seen == [call EXCEPT !.last = reply, !.delay = 0]
    IN IF reply.exc # "none"
         THEN [seen EXCEPT !.st = "sleep", !.delay = ShortBackoff, !.failures = @ + 1]
       ELSE IF IsHTTPStatusError(reply)
         THEN IF reply.status = 503
                THEN [seen EXCEPT !.st = "sleep", !.delay = LongBackoff, !.failures = @ + 1]
                ELSE [seen EXCEPT !.st = "raised",
                                  !.err = [type |-> "HTTPStatusError", status |-> reply.status]]
       ELSE IF ~reply.json
         THEN [seen EXCEPT !.st = "raised", !.err = [type |-> "JSONDecodeError", status |-> 0]]
       ELSE [seen EXCEPT !.st = "returned", !.result = body]

\* The try block and its two handlers, up to the next suspension or the exit.
\* last is the reply the attempt got; failures counts the handled failures,
\* each of which ends in one recursive call; delay is the backoff that the
\* call sleeps, and that preceded the attempt in flight.
Handle(call, reply, body) ==
    LET seen == [call EXCEPT !.last = reply, !.delay = 0]
    IN IF IsNetworkError(reply)
         THEN [seen EXCEPT !.st = "sleep", !.delay = ShortBackoff, !.failures = @ + 1]
       ELSE IF reply.exc # "none"
         THEN [seen EXCEPT !.st = "raised", !.err = [type |-> reply.exc, status |-> 0]]
       ELSE IF IsHTTPStatusError(reply)
         THEN IF reply.status = 503
                THEN [seen EXCEPT !.st = "sleep", !.delay = LongBackoff, !.failures = @ + 1]
                ELSE [seen EXCEPT !.st = "raised",
                                  !.err = [type |-> "HTTPStatusError", status |-> reply.status]]
       ELSE IF ~reply.json
         THEN [seen EXCEPT !.st = "raised", !.err = [type |-> "JSONDecodeError", status |-> 0]]
       ELSE [seen EXCEPT !.st = "returned", !.result = body]

Finished(call) == call.st \in {"returned", "raised"}

\* ---- asyncio.gather(*coroutines) ----------------------------------------
\* Variant: the awaiter resumes once no task is running, as with
\* return_exceptions=True.
GatherReady_finished(ts) == \A i \in DOMAIN ts : Finished(ts[i])

\* Variant: the awaiter resumes with the first task that returns.
GatherReady_any(ts) == \E i \in DOMAIN ts : ts[i].st = "returned"

\* The awaiter of gather resumes with the list of results once every task has
\* returned; the list is in the order of the arguments.
GatherReady(ts) == \A i \in DOMAIN ts : ts[i].st = "returned"

\* Variant: the results are listed in completion order.
GatherResults_completion(ts, order) == [i \in DOMAIN order |-> ts[order[i]]]

\* The finished tasks in the order gather lists their results: the order of
\* the arguments, whatever the completion order was.
GatherResults(ts, order) == [i \in DOMAIN ts |-> ts[i]]

\* lines 164-166: the detail gather's list of decoded bodies
DetailResults(ts, order) ==
    LET done == GatherResults(ts, order) IN [i \in DOMAIN done |-> done[i].result]

\* Variant: the failure is reported once no task of the batch is running.
GatherFailed_afterAll(ts) ==
    /\ \E i \in DOMAIN ts : ts[i].st = "raised"
    /\ \A i \in DOMAIN ts : ts[i].st \in {"returned", "raised"}

\* Without return_exceptions, the first exception a task raises is set on
\* the gather future at once; the other tasks are left running.
GatherFailed(ts) == \E i \in DOMAIN ts : ts[i].st = "raised"

RECURSIVE FirstRaised(_, _)
FirstRaised(ts, order) ==
    IF order = <<>> THEN 0
    ELSE IF ts[Head(order)].st = "raised" THEN Head(order)
    ELSE FirstRaised(ts, Tail(order))

GatherError(ts, order) == ts[FirstRaised(ts, order)].err

\* ---- the mapping helpers (ado_mapping) ----------------------------------
\* parse_work_items: one WorkItem per raw payload, in order; a payload that
\* lacks a required field fails validation.
MappingFails(details) == \E i \in DOMAIN details : ~details[i].valid

parse_work_items(details) ==
    [i \in DOMAIN details |-> [id |-> details[i].id, system |-> TRUE, comments |-> Unset]]

\* parse_comments: one comment per raw entry, in order
parse_comments(raw) == [i \in DOMAIN raw |-> [id |-> raw[i]]]

\* dict.get(key, default)
Get(body, key, value, default) == IF key \in body.has THEN value ELSE default

\* Variant: the counts are read without a default.
CommentsSchema_noDefault(body) ==
    [set |-> TRUE,
     totalCount |-> body.totalCount,
     count |-> body.count,
     comments |-> parse_comments(Get(body, "comments", body.comments, <<>>)),
     url |-> body.url]

\* lines 181-186: AzureDevOpsCommentsSchema(totalCount=..., count=...,
\* comments=parse_comments(...)), each key read with a default
CommentsSchema(body) ==
    [set |-> TRUE,
     totalCount |-> Get(body, "totalCount", body.totalCount, 0),
     count |-> Get(body, "count", body.count, 0),
     comments |-> parse_comments(Get(body, "comments", body.comments, <<>>)),
     url |-> body.url]

\* ---- get_work_items_details / get_working_item_comments -----------------
\* Variant: a reference that repeats an earlier one is not requested again.
DetailCalls_dedup(listing) ==
    LET refs == listing.workItems
        first == SelectSeq([i \in DOMAIN refs |-> i],
                           LAMBDA i : \A j \in 1..(i - 1) : refs[j] # refs[i])
    IN [k \in DOMAIN first |-> NewCall(refs[first[k]].url, "get", NoData)]

\* lines 160-164: one __request_url(url, "get") per listed reference
DetailCalls(listing) ==
    [i \in DOMAIN listing.workItems |-> NewCall(listing.workItems[i].url, "get", NoData)]

\* Variant: every comment task is handed the first work item.
CommentCalls_firstItem(items) ==
    [i \in DOMAIN items |-> [NewCall(CommentsUrl(items[i].id), "get", NoData) EXCEPT !.arg = 1]]

\* lines 178-180 and 202-204: one get_working_item_comments per work item
CommentCalls(items) ==
    [i \in DOMAIN items |-> [NewCall(CommentsUrl(items[i].id), "get", NoData) EXCEPT !.arg = i]]

\* Variant: an empty comment list is not attached.
AttachComments_skipEmpty(items, call) ==
    IF call.st = "returned" /\ call.arg \in DOMAIN items /\ call.result.count > 0
      THEN [items EXCEPT ![call.arg].comments = CommentsSchema(call.result)]
      ELSE items

\* lines 181-187: the rest of get_working_item_comments after the response
AttachComments(items, call) ==
    IF call.st = "returned" /\ call.arg \in DOMAIN items
      THEN [items EXCEPT ![call.arg].comments = CommentsSchema(call.result)]
      ELSE items

\* the return value of the comment gather: each task returns its work_item
CommentResults(ts, order, items) ==
    LET done == GatherResults(ts, order) IN [i \in DOMAIN done |-> items[done[i].arg]]

\* the tasks of a gather finished in another order than they were submitted
OutOfOrder(order) == \E i \in DOMAIN order : order[i] # i

\* ---- initial state: the extractor after __init__ ------------------------
Init ==
    /\ pc = "idle"
    /\ tasks = [s \in Stages |-> <<>>]
    /\ doneOrder = [s \in Stages |-> <<>>]
    /\ network = PipelineReplies
    /\ outages = 0
    /\ submitted = [s \in Stages |-> 0]
    /\ completed = [s \in Stages |-> 0]
    /\ reordered = [s \in Stages |-> FALSE]
    /\ items_list = NoBody
    /\ items_details = <<>>
    /\ work_items = <<>>
    /\ mapped = FALSE
    /\ work_items_comments = <<>>
    /\ closed = FALSE
    /\ closeCount = 0
    /\ returned = <<>>
    /\ error = NoError
    /\ left_running = 0
    /\ calls = 0
    /\ poller = NoPoller
    /\ kwargs = TestAdoArgs
    /\ query = NoQuery
    /\ prompt_args = NoPromptArgs
    /\ prompt_request = NoPrompt

\* ---- format_work_items --------------------------------------------------
\* The call runs get_work_items up to its first suspension: the listing
\* request is on the wire.
format_work_items ==
    /\ pc = "idle"
    /\ pc' = "listing"
    /\ tasks' = [tasks EXCEPT !["list"] = <<Attempt(NewCall(WiqlUrl, "post", Query))>>]
    /\ submitted' = [submitted EXCEPT !["list"] = @ + 1]
    /\ calls' = calls + 1
    /\ query' = WiqlQuery(kwargs.process_date, kwargs.days_length)
    /\ UNCHANGED <<poller, kwargs, prompt_args, prompt_request, left_running, network, outages, doneOrder, completed, reordered, items_list, items_details, work_items, mapped, work_items_comments,
                   closed, closeCount, returned, error>>

\* Variant: a sleeping task holds the event loop, as time.sleep would.
request_url_start_blocked(s, i) ==
    /\ s \in {"detail", "comment"}
    /\ i \in DOMAIN tasks[s]
    /\ tasks[s][i].st = "created"
    /\ \A j \in DOMAIN tasks[s] : tasks[s][j].st # "sleep"
    /\ tasks' = [tasks EXCEPT ![s][i] = Attempt(@)]
    /\ UNCHANGED <<poller, calls, kwargs, query, prompt_args, prompt_request, left_running, network, outages, pc, doneOrder, submitted,
                   completed, reordered, items_list, items_details, work_items, mapped, work_items_comments, closed,
                   closeCount, returned, error>>

\* Variant: one request of a batch is on the wire at a time.
request_url_start_capped(s, i) ==
    /\ s \in {"detail", "comment"}
    /\ i \in DOMAIN tasks[s]
    /\ tasks[s][i].st = "created"
    /\ \A j \in DOMAIN tasks[s] : tasks[s][j].st # "inflight"
    /\ tasks' = [tasks EXCEPT ![s][i] = Attempt(@)]
    /\ UNCHANGED <<poller, calls, kwargs, query, prompt_args, prompt_request, left_running, network, outages, pc, doneOrder, submitted,
                   completed, reordered, items_list, items_details, work_items, mapped, work_items_comments, closed,
                   closeCount, returned, error>>

\* A task created by gather runs for the first time.
request_url_start(s, i) ==
    /\ s \in {"detail", "comment"}
    /\ i \in DOMAIN tasks[s]
    /\ tasks[s][i].st = "created"
    /\ tasks' = [tasks EXCEPT ![s][i] = Attempt(@)]
    /\ UNCHANGED <<poller, calls, kwargs, query, prompt_args, prompt_request, left_running, network, outages, pc, doneOrder, submitted, completed, reordered, items_list, items_details, work_items, mapped,
                   work_items_comments, closed, closeCount, returned, error>>

\* An attempt ends: the handlers run, and for a comment task the comments
\* are attached in the same step.
request_url_reply(s, i) ==
    /\ s \in Stages
    /\ i \in DOMAIN tasks[s]
    /\ tasks[s][i].st = "inflight"
    /\ \E reply \in network, body \in Bodies(tasks[s][i].url) :
          /\ IsTransient(reply) => outages < MaxOutages
          /\ outages' = IF IsTransient(reply) THEN outages + 1 ELSE outages
          /\ LET call == Handle(tasks[s][i], reply, body)
             IN /\ tasks' = [tasks EXCEPT ![s][i] = call]
                /\ doneOrder' = IF Finished(call)
                                  THEN [doneOrder EXCEPT ![s] = Append(@, i)]
                                  ELSE doneOrder
                /\ completed' = IF call.st = "returned"
                                  THEN [completed EXCEPT ![s] = @ + 1]
                                  ELSE completed
                /\ work_items' = IF s = "comment" THEN AttachComments(work_items, call)
                                  ELSE work_items
    /\ UNCHANGED <<poller, calls, kwargs, query, prompt_args, prompt_request, left_running, pc, network, submitted, reordered, items_list, items_details, mapped, work_items_comments,
                   closed, closeCount, returned, error>>

\* Variant: the retry is given up after the second attempt.
request_url_retry_capped(s, i) ==
    /\ s \in Stages
    /\ i \in DOMAIN tasks[s]
    /\ tasks[s][i].st = "sleep"
    /\ tasks[s][i].attempts < 2
    /\ tasks' = [tasks EXCEPT ![s][i] = Attempt(@)]
    /\ UNCHANGED <<poller, calls, kwargs, query, prompt_args, prompt_request, left_running, network, outages, pc, doneOrder, submitted, completed, reordered, items_list, items_details, work_items, mapped,
                   work_items_comments, closed, closeCount, returned, error>>

\* The backoff sleep ends: the recursive call makes the next attempt.
request_url_retry(s, i) ==
    /\ s \in Stages
    /\ i \in DOMAIN tasks[s]
    /\ tasks[s][i].st = "sleep"
    /\ tasks' = [tasks EXCEPT ![s][i] = Attempt(@)]
    /\ UNCHANGED <<poller, calls, kwargs, query, prompt_args, prompt_request, left_running, network, outages, pc, doneOrder, submitted, completed, reordered, items_list, items_details, work_items, mapped,
                   work_items_comments, closed, closeCount, returned, error>>

\* Variant: a listing without references is treated as a failure.
get_work_items_return_emptyFails ==
    /\ pc = "listing"
    /\ tasks["list"][1].st = "returned"
    /\ items_list' = tasks["list"][1].result
    /\ doneOrder' = [doneOrder EXCEPT !["list"] = <<>>]
    /\ LET requests == DetailCalls(tasks["list"][1].result)
       IN /\ tasks' = [tasks EXCEPT !["list"] = <<>>, !["detail"] = requests]
          /\ submitted' = [submitted EXCEPT !["detail"] = @ + Len(requests)]
          /\ IF requests = <<>>
               THEN /\ pc' = "raised"
                    /\ error' = [type |-> "ValueError", status |-> 0]
               ELSE /\ pc' = "details"
                    /\ UNCHANGED error
    /\ UNCHANGED <<poller, calls, kwargs, query, prompt_args, prompt_request, left_running, network, outages, completed, reordered,
                   items_details, work_items, mapped, work_items_comments, closed, closeCount, returned>>

\* get_work_items returns the listing; get_work_items_details submits the
\* detail requests.  An empty gather is already done, so with no reference
\* the coroutine runs on through mapping and the empty comment gather to
\* the await of close.
get_work_items_return ==
    /\ pc = "listing"
    /\ tasks["list"][1].st = "returned"
    /\ items_list' = tasks["list"][1].result
    /\ doneOrder' = [doneOrder EXCEPT !["list"] = <<>>]
    /\ LET requests == DetailCalls(tasks["list"][1].result)
       IN /\ tasks' = [tasks EXCEPT !["list"] = <<>>, !["detail"] = requests]
          /\ submitted' = [submitted EXCEPT !["detail"] = @ + Len(requests)]
          /\ IF requests = <<>>
               THEN /\ pc' = "closing"
                    /\ mapped' = TRUE
               ELSE /\ pc' = "details"
                    /\ UNCHANGED mapped
    /\ UNCHANGED <<poller, calls, kwargs, query, prompt_args, prompt_request, left_running, network, outages, completed, reordered, items_details, work_items, work_items_comments,
                   closed, closeCount, returned, error>>

\* get_work_items raises what the listing request raised.
get_work_items_raise ==
    /\ pc = "listing"
    /\ tasks["list"][1].st = "raised"
    /\ pc' = "raised"
    /\ error' = tasks["list"][1].err
    /\ UNCHANGED <<poller, calls, kwargs, query, prompt_args, prompt_request, left_running, network, outages, tasks, doneOrder, submitted, completed, reordered, items_list, items_details, work_items, mapped,
                   work_items_comments, closed, closeCount, returned>>

\* Variant: a payload that fails validation is tolerated and the run goes on
\* to the comment requests.
get_work_items_details_return_tolerant ==
    /\ pc = "details"
    /\ GatherReady(tasks["detail"])
    /\ reordered' = [reordered EXCEPT !["detail"] = OutOfOrder(doneOrder["detail"])]
    /\ LET details == DetailResults(tasks["detail"], doneOrder["detail"])
       IN /\ items_details' = details
          /\ pc' = "comments"
          /\ work_items' = parse_work_items(details)
          /\ mapped' = TRUE
          /\ tasks' = [tasks EXCEPT !["detail"] = <<>>,
                                    !["comment"] = CommentCalls(parse_work_items(details))]
          /\ submitted' = [submitted EXCEPT !["comment"] = @ + Len(details)]
    /\ doneOrder' = [doneOrder EXCEPT !["detail"] = <<>>]
    /\ UNCHANGED <<poller, calls, kwargs, query, prompt_args, prompt_request, left_running, network, outages, completed, items_list,
                   work_items_comments, closed, closeCount, returned, error>>

\* Variant: the comment requests are submitted for items whose fields are
\* mapped later.
get_work_items_details_return_lazy ==
    /\ pc = "details"
    /\ GatherReady(tasks["detail"])
    /\ reordered' = [reordered EXCEPT !["detail"] = OutOfOrder(doneOrder["detail"])]
    /\ LET details == DetailResults(tasks["detail"], doneOrder["detail"])
           items == [i \in DOMAIN details |-> [parse_work_items(details)[i] EXCEPT !.system = FALSE]]
       IN /\ items_details' = details
          /\ pc' = "comments"
          /\ work_items' = items
          /\ tasks' = [tasks EXCEPT !["detail"] = <<>>, !["comment"] = CommentCalls(items)]
          /\ submitted' = [submitted EXCEPT !["comment"] = @ + Len(details)]
    /\ doneOrder' = [doneOrder EXCEPT !["detail"] = <<>>]
    /\ UNCHANGED <<poller, calls, kwargs, query, prompt_args, prompt_request, left_running, network, outages, completed, items_list,
                   mapped, work_items_comments, closed, closeCount, returned, error>>

\* The detail gather returns and its tasks are dropped; parse_work_items
\* maps the payloads and the comment tasks are submitted.
get_work_items_details_return ==
    /\ pc = "details"
    /\ GatherReady(tasks["detail"])
    /\ reordered' = [reordered EXCEPT !["detail"] = OutOfOrder(doneOrder["detail"])]
    /\ LET details == DetailResults(tasks["detail"], doneOrder["detail"])
       IN /\ items_details' = details
          /\ IF MappingFails(details)
               THEN /\ pc' = "raised"
                    /\ error' = [type |-> "ValidationError", status |-> 0]
                    /\ tasks' = [tasks EXCEPT !["detail"] = <<>>]
                    /\ UNCHANGED <<network, outages, submitted, work_items, mapped>>
               ELSE /\ pc' = "comments"
                    /\ work_items' = parse_work_items(details)
                    /\ mapped' = TRUE
                    /\ tasks' = [tasks EXCEPT !["detail"] = <<>>,
                                              !["comment"] = CommentCalls(parse_work_items(details))]
                    /\ submitted' = [submitted EXCEPT !["comment"] = @ + Len(details)]
                    /\ UNCHANGED error
    /\ doneOrder' = [doneOrder EXCEPT !["detail"] = <<>>]
    /\ UNCHANGED <<poller, calls, kwargs, query, prompt_args, prompt_request, left_running, network, outages, completed, items_list, work_items_comments, closed, closeCount, returned>>

\* Variant: the gather cancels the tasks that are still running, as a task
\* group does.
gather_raise_cancelling(s) ==
    /\ \/ s = "detail" /\ pc = "details"
       \/ s = "comment" /\ pc = "comments"
    /\ GatherFailed(tasks[s])
    /\ pc' = "raised"
    /\ error' = GatherError(tasks[s], doneOrder[s])
    /\ left_running' = Cardinality({i \in DOMAIN tasks[s] : ~Finished(tasks[s][i])})
    /\ tasks' = [tasks EXCEPT ![s] = [i \in DOMAIN @ |->
                     IF Finished(@[i]) THEN @[i] ELSE [@[i] EXCEPT !.st = "cancelled"]]]
    /\ UNCHANGED <<poller, calls, kwargs, query, prompt_args, prompt_request, network, outages, doneOrder, submitted, completed, reordered,
                   items_list, items_details, work_items, mapped, work_items_comments, closed, closeCount, returned>>

\* A gather raises the first exception of its tasks into format_work_items.
gather_raise(s) ==
    /\ \/ s = "detail" /\ pc = "details"
       \/ s = "comment" /\ pc = "comments"
    /\ GatherFailed(tasks[s])
    /\ pc' = "raised"
    /\ error' = GatherError(tasks[s], doneOrder[s])
    /\ left_running' = Cardinality({i \in DOMAIN tasks[s] : ~Finished(tasks[s][i])})
    /\ UNCHANGED <<poller, calls, kwargs, query, prompt_args, prompt_request, network, outages, tasks, doneOrder, submitted, completed, reordered, items_list, items_details, work_items, mapped,
                   work_items_comments, closed, closeCount, returned>>

\* The comment gather returns; format_work_items awaits close.
comments_return ==
    /\ pc = "comments"
    /\ GatherReady(tasks["comment"])
    /\ work_items_comments' = CommentResults(tasks["comment"], doneOrder["comment"], work_items)
    /\ reordered' = [reordered EXCEPT !["comment"] = OutOfOrder(doneOrder["comment"])]
    /\ tasks' = [tasks EXCEPT !["comment"] = <<>>]
    /\ doneOrder' = [doneOrder EXCEPT !["comment"] = <<>>]
    /\ pc' = "closing"
    /\ UNCHANGED <<poller, calls, kwargs, query, prompt_args, prompt_request, left_running, network, outages, submitted, completed, items_list, items_details, work_items, mapped,
                   closed, closeCount, returned, error>>

\* Variant: close is called while the comment gather is still awaited.
close_unawaited ==
    /\ pc \in {"comments", "closing"}
    /\ closed' = TRUE
    /\ closeCount' = closeCount + 1
    /\ returned' = work_items_comments
    /\ pc' = "returned"
    /\ UNCHANGED <<poller, calls, kwargs, query, prompt_args, prompt_request, left_running, network, outages, tasks, doneOrder, submitted,
                   completed, reordered, items_list, items_details, work_items, mapped, work_items_comments, error>>

\* close() and the return statement
close ==
    /\ pc = "closing"
    /\ closed' = TRUE
    /\ closeCount' = closeCount + 1
    /\ returned' = work_items_comments
    /\ pc' = "returned"
    /\ UNCHANGED <<poller, calls, kwargs, query, prompt_args, prompt_request, left_running, network, outages, tasks, doneOrder, submitted, completed, reordered, items_list, items_details, work_items, mapped,
                   work_items_comments, error>>

\* Variant: a request on the closed client fails like a lost connection.
ClosedReply_networkError == [exc |-> "ConnectError", status |-> 0, json |-> FALSE]

\* http_client.request on a client that aclose() has closed raises
\* RuntimeError before anything is sent.
ClosedReply == [exc |-> "RuntimeError", status |-> 0, json |-> FALSE]

\* format_work_items is called again on the instance whose first call has
\* returned.  The client made in __init__ is the closed one; the listing
\* attempt fails without a suspension, and what __request_url does with
\* the failure ends the call or leaves it in a backoff.
format_work_items_closed ==
    /\ pc = "returned"
    /\ closed
    /\ LET call == Handle(Attempt(NewCall(WiqlUrl, "post", Query)), ClosedReply, NoBody)
       IN /\ tasks' = [tasks EXCEPT !["list"] = <<call>>]
          /\ IF call.st = "raised"
               THEN /\ pc' = "raised"
                    /\ error' = call.err
                    /\ doneOrder' = [doneOrder EXCEPT !["list"] = <<1>>]
               ELSE /\ pc' = "listing"
                    /\ UNCHANGED <<error, doneOrder>>
    /\ calls' = calls + 1
    /\ submitted' = [s \in Stages |-> IF s = "list" THEN 1 ELSE 0]
    /\ completed' = [s \in Stages |-> 0]
    /\ reordered' = [s \in Stages |-> FALSE]
    /\ left_running' = 0
    /\ query' = WiqlQuery(kwargs.process_date, kwargs.days_length)
    /\ items_list' = NoBody
    /\ items_details' = <<>>
    /\ work_items' = <<>>
    /\ mapped' = FALSE
    /\ work_items_comments' = <<>>
    /\ returned' = <<>>
    /\ UNCHANGED <<poller, kwargs, prompt_args, prompt_request, network, outages, closed, closeCount>>

Next ==
    \/ format_work_items
    \/ format_work_items_closed
    \/ \E s \in Stages, i \in 1..(MaxItems + 1) : request_url_start(s, i)
    \/ \E s \in Stages, i \in 1..(MaxItems + 1) : request_url_reply(s, i)
    \/ \E s \in Stages, i \in 1..(MaxItems + 1) : request_url_retry(s, i)
    \/ get_work_items_return
    \/ get_work_items_raise
    \/ get_work_items_details_return
    \/ \E s \in Stages : gather_raise(s)
    \/ comments_return
    \/ close

Spec == Init /\ [][Next]_vars

\* ---- one call of __request_url on its own --------------------------------
\* A caller awaits one call of __request_url: the listing POST, a detail GET
\* or a comments GET, its first attempt on the wire, with every kind of
\* reply possible.
RequestCalls ==
    {NewCall(WiqlUrl, "post", Query)}
    \cup {NewCall(ItemUrl(id), "get", NoData) : id \in Ids}
    \cup {NewCall(CommentsUrl(id), "get", NoData) : id \in Ids}

InitRequest ==
    /\ pc = "request"
    /\ \E call \in RequestCalls : tasks = [s \in Stages |-> IF s = "list" THEN <<Attempt(call)>> ELSE <<>>]
    /\ doneOrder = [s \in Stages |-> <<>>]
    /\ network = Replies
    /\ outages = 0
    /\ submitted = [s \in Stages |-> IF s = "list" THEN 1 ELSE 0]
    /\ completed = [s \in Stages |-> 0]
    /\ reordered = [s \in Stages |-> FALSE]
    /\ items_list = NoBody
    /\ items_details = <<>>
    /\ work_items = <<>>
    /\ mapped = FALSE
    /\ work_items_comments = <<>>
    /\ closed = FALSE
    /\ closeCount = 0
    /\ returned = <<>>
    /\ error = NoError
    /\ left_running = 0
    /\ calls = 0
    /\ poller = NoPoller
    /\ kwargs = TestAdoArgs
    /\ query = NoQuery
    /\ prompt_args = NoPromptArgs
    /\ prompt_request = NoPrompt

NextRequest ==
    \/ request_url_reply("list", 1)
    \/ request_url_retry("list", 1)

RequestSpec == InitRequest /\ [][NextRequest]_vars

\* ---- get_work_items' query on its own -----------------------------------
\* get_work_items is called with a start date and a window and builds its
\* query, up to the request.
InitDates ==
    /\ pc = "dates"
    /\ kwargs \in DateArgs
    /\ query = NoQuery
    /\ tasks = [s \in Stages |-> <<>>]
    /\ doneOrder = [s \in Stages |-> <<>>]
    /\ network = Replies
    /\ outages = 0
    /\ submitted = [s \in Stages |-> 0]
    /\ completed = [s \in Stages |-> 0]
    /\ reordered = [s \in Stages |-> FALSE]
    /\ items_list = NoBody
    /\ items_details = <<>>
    /\ work_items = <<>>
    /\ mapped = FALSE
    /\ work_items_comments = <<>>
    /\ closed = FALSE
    /\ closeCount = 0
    /\ returned = <<>>
    /\ error = NoError
    /\ left_running = 0
    /\ calls = 0
    /\ poller = NoPoller
    /\ prompt_args = NoPromptArgs
    /\ prompt_request = NoPrompt

get_work_items ==
    /\ pc = "dates"
    /\ pc' = "listing"
    /\ query' = WiqlQuery(kwargs.process_date, kwargs.days_length)
    /\ tasks' = [tasks EXCEPT !["list"] = <<Attempt(NewCall(WiqlUrl, "post", Query))>>]
    /\ submitted' = [submitted EXCEPT !["list"] = @ + 1]
    /\ UNCHANGED <<poller, calls, kwargs, prompt_args, prompt_request, left_running, network, outages, doneOrder, completed, reordered,
                   items_list, items_details, work_items, mapped, work_items_comments, closed, closeCount, returned, error>>

NextDates == get_work_items

DateSpec == InitDates /\ [][NextDates]_vars

\* ---- QueryGenerator.send_request ------------------------------------------
InitPrompt ==
    /\ pc = "prompt"
    /\ prompt_args \in PromptArgs
    /\ prompt_request = NoPrompt
    /\ kwargs = TestAdoArgs
    /\ query = NoQuery
    /\ tasks = [s \in Stages |-> <<>>]
    /\ doneOrder = [s \in Stages |-> <<>>]
    /\ network = Replies
    /\ outages = 0
    /\ submitted = [s \in Stages |-> 0]
    /\ completed = [s \in Stages |-> 0]
    /\ reordered = [s \in Stages |-> FALSE]
    /\ items_list = NoBody
    /\ items_details = <<>>
    /\ work_items = <<>>
    /\ mapped = FALSE
    /\ work_items_comments = <<>>
    /\ closed = FALSE
    /\ closeCount = 0
    /\ returned = <<>>
    /\ error = NoError
    /\ left_running = 0
    /\ calls = 0
    /\ poller = NoPoller

\* send_request up to its first suspension: prepare_request raises, or the
\* messages are built and the request is on the wire.
send_request ==
    /\ pc = "prompt"
    /\ IF PrepareFails(prompt_args)
         THEN /\ pc' = "raised"
              /\ error' = [type |-> "ValueError", status |-> 0]
              /\ UNCHANGED <<prompt_request, tasks, submitted>>
         ELSE /\ pc' = "request"
              /\ prompt_request' = prepare_request(prompt_args)
              /\ tasks' = [tasks EXCEPT !["list"] = <<Attempt(NewCall(AoaiUrl, "get", Messages))>>]
              /\ submitted' = [submitted EXCEPT !["list"] = @ + 1]
              /\ UNCHANGED error
    /\ UNCHANGED <<poller, calls, kwargs, query, prompt_args, left_running, network, outages, doneOrder, completed, reordered,
                   items_list, items_details, work_items, mapped, work_items_comments, closed, closeCount, returned>>

\* the response is read and the content of the first choice is returned
send_request_return ==
    /\ pc = "request"
    /\ tasks["list"][1].st = "returned"
    /\ pc' = "returned"
    /\ returned' = <<tasks["list"][1].result>>
    /\ UNCHANGED <<poller, calls, kwargs, query, prompt_args, prompt_request, left_running, network, outages, tasks, doneOrder, submitted,
                   completed, reordered, items_list, items_details, work_items, mapped, work_items_comments, closed,
                   closeCount, error>>

\* send_request raises what the request raised
send_request_raise ==
    /\ pc = "request"
    /\ tasks["list"][1].st = "raised"
    /\ pc' = "raised"
    /\ error' = tasks["list"][1].err
    /\ UNCHANGED <<poller, calls, kwargs, query, prompt_args, prompt_request, left_running, network, outages, tasks, doneOrder, submitted,
                   completed, reordered, items_list, items_details, work_items, mapped, work_items_comments, closed,
                   closeCount, returned>>

NextPrompt ==
    \/ send_request
    \/ request_url_reply("list", 1)
    \/ request_url_retry("list", 1)
    \/ send_request_return
    \/ send_request_raise

QuerySpec == InitPrompt /\ [][NextPrompt]_vars

\* ---- ado_function_poller ---------------------------------------------------
ExtractorVars ==
    <<pc, tasks, doneOrder, network, outages, submitted, completed, reordered, items_list, items_details,
      work_items, mapped, work_items_comments, closed, closeCount, returned, error, left_running, kwargs, query,
      prompt_args, prompt_request, calls>>

InitPoller ==
    /\ poller = NoPoller
    /\ pc = "poller"
    /\ tasks = [s \in Stages |-> <<>>]
    /\ doneOrder = [s \in Stages |-> <<>>]
    /\ network = Replies
    /\ outages = 0
    /\ submitted = [s \in Stages |-> 0]
    /\ completed = [s \in Stages |-> 0]
    /\ reordered = [s \in Stages |-> FALSE]
    /\ items_list = NoBody
    /\ items_details = <<>>
    /\ work_items = <<>>
    /\ mapped = FALSE
    /\ work_items_comments = <<>>
    /\ closed = FALSE
    /\ closeCount = 0
    /\ returned = <<>>
    /\ error = NoError
    /\ left_running = 0
    /\ kwargs = TestAdoArgs
    /\ query = NoQuery
    /\ prompt_args = NoPromptArgs
    /\ prompt_request = NoPrompt
    /\ calls = 0

\* lines 30-42: the request arrives; start_date is ten days before now
ado_function_poller ==
    /\ poller.pc = "idle"
    /\ poller' = [poller EXCEPT !.pc = "loop", !.day = 0, !.values = NoValues]
    /\ UNCHANGED ExtractorVars

\* lines 45-81: one pass of the while loop, for the day start_date stands at
poller_day ==
    /\ poller.pc = "loop"
    /\ poller.day <= PollDays
    /\ \E outcome \in DayOutcomes :
          poller' = [poller EXCEPT !.values = DayValues(outcome, @),
                                   !.visited = Append(@, poller.day),
                                   !.day_items = Len(outcome.uploads),
                                   !.day_done = UploadAll(outcome.uploads, NoValues).added
                                                + UploadAll(outcome.uploads, NoValues).failed,
                                   !.day = @ + 1]
    /\ UNCHANGED ExtractorVars

\* line 83: start_date has passed end_date; the response is built
poller_return ==
    /\ poller.pc = "loop"
    /\ poller.day > PollDays
    /\ poller' = [poller EXCEPT !.pc = "done",
                                !.response = IF Serializable(poller.values)
                                               THEN "HttpResponse" ELSE "TypeError"]
    /\ UNCHANGED ExtractorVars

NextPoller ==
    \/ ado_function_poller
    \/ poller_day
    \/ poller_return

PollerSpec == InitPoller /\ [][NextPoller]_vars

\* ======================= properties =====================================
AllCalls == {<<s, i>> : s \in Stages, i \in 1..(MaxItems + 1)}
Live(s, i) == i \in DOMAIN tasks[s]
StagePc(s) == CASE s = "list" -> "listing" [] s = "detail" -> "details" [] s = "comment" -> "comments"
Listed == items_list.workItems
IsHardStatus(reply) == IsHTTPStatusError(reply) /\ reply.status # 503
IsTransientError(e) ==
    e.type \in NetworkErrors \/ (e.type = "HTTPStatusError" /\ e.status = 503)

\* C1: a fan-out stage that succeeds returns, at position i, the result for
\* its i-th input: the detail payload answers the i-th listed URL, and the
\* i-th returned work item is the i-th mapped item carrying the comments of
\* its own comments URL, whatever the completion order was.
C1_OrderPreserved ==
    /\ items_details # <<>> =>
         /\ Len(items_details) = Len(Listed)
         /\ \A i \in DOMAIN Listed : items_details[i].url = Listed[i].url
    /\ pc \in {"closing", "returned"} =>
         /\ Len(work_items_comments) = Len(work_items)
         /\ \A i \in DOMAIN work_items :
              /\ work_items_comments[i] = work_items[i]
              /\ work_items_comments[i].comments.url = CommentsUrl(work_items[i].id)

C1_Witness ==
    /\ pc = "returned"
    /\ reordered["detail"] /\ reordered["comment"]
    /\ Len(returned) = 2
    /\ returned[1].id # returned[2].id

\* C2 (as stated): whenever format_work_items has ended, by returning or by
\* raising, close has been called exactly once.
C2_ClosedOnEveryExit ==
    pc \in {"returned", "raised"} => (closeCount = 1 /\ closed)

\* C3: format_work_items ends in one of two ways: it returns every listed
\* item, in listing order, each with its comments set, and no error; or it
\* raises one error and returns nothing.  Before it ends there is neither.
C3_CompleteListOrError ==
    /\ pc = "returned" =>
         /\ error = NoError
         /\ Len(returned) = Len(Listed)
         /\ \A i \in DOMAIN Listed :
              returned[i].id = Listed[i].id /\ returned[i].comments.set
    /\ pc = "raised" => (error # NoError /\ returned = <<>>)
    /\ pc \notin {"returned", "raised"} => (error = NoError /\ returned = <<>>)

C3_Witness ==
    /\ pc = "returned"
    /\ Len(returned) = 2
    /\ returned[1].comments.set /\ returned[1].comments.count = 1
    /\ returned[2].comments.set /\ returned[2].comments.count = 0

\* C4: a call whose attempt got an HTTP error status other than 503 has
\* raised that status error, and it makes no further attempt: the call never
\* changes again.  The attempt may be the first or a retry.
C4_HardStatusNotRetried ==
    /\ [](\A c \in AllCalls :
            (Live(c[1], c[2]) /\ IsHardStatus(tasks[c[1]][c[2]].last)) =>
               /\ tasks[c[1]][c[2]].st = "raised"
               /\ tasks[c[1]][c[2]].err =
                    [type |-> "HTTPStatusError", status |-> tasks[c[1]][c[2]].last.status]
               /\ ~ENABLED request_url_retry(c[1], c[2]))
    /\ [][\A c \in AllCalls :
            (Live(c[1], c[2]) /\ IsHardStatus(tasks[c[1]][c[2]].last)) =>
               /\ c[2] \in DOMAIN tasks'[c[1]]
               /\ tasks'[c[1]][c[2]] = tasks[c[1]][c[2]]]_vars

C4_Witness ==
    /\ tasks["list"][1].st = "raised"
    /\ tasks["list"][1].last.status = 500
    /\ tasks["list"][1].err = [type |-> "HTTPStatusError", status |-> 500]
    /\ tasks["list"][1].attempts = 3

\* C5 (as stated): an attempt that failed with a network-level failure, a
\* timeout while connecting included, is followed by the short backoff.
C5_TimeoutRetried ==
    \A c \in AllCalls :
       (Live(c[1], c[2])
          /\ tasks[c[1]][c[2]].last.exc \in NetworkErrors \cup OtherTransportErrors) =>
            (tasks[c[1]][c[2]].st = "sleep" /\ tasks[c[1]][c[2]].delay = ShortBackoff)

\* C5 (amended): an attempt that failed with an httpx.NetworkError is followed
\* by the short backoff; the retry is possible whatever the number of
\* attempts made, and the next step of the call is a new attempt with the
\* same method, URL and body.
C5_NetworkErrorRetried ==
    /\ [](\A c \in AllCalls :
            (Live(c[1], c[2]) /\ IsNetworkError(tasks[c[1]][c[2]].last)) =>
               /\ tasks[c[1]][c[2]].st = "sleep"
               /\ tasks[c[1]][c[2]].delay = ShortBackoff
               /\ ENABLED request_url_retry(c[1], c[2]))
    /\ [][\A c \in AllCalls :
            (Live(c[1], c[2]) /\ IsNetworkError(tasks[c[1]][c[2]].last)) =>
               /\ c[2] \in DOMAIN tasks'[c[1]]
               /\ tasks'[c[1]][c[2]] # tasks[c[1]][c[2]] =>
                    /\ tasks'[c[1]][c[2]].st = "inflight"
                    /\ tasks'[c[1]][c[2]].attempts = tasks[c[1]][c[2]].attempts + 1
                    /\ tasks'[c[1]][c[2]].delay = ShortBackoff
                    /\ tasks'[c[1]][c[2]].wire = tasks[c[1]][c[2]].wire]_vars

C5_Witness ==
    /\ tasks["list"][1].st = "inflight"
    /\ tasks["list"][1].attempts = 3
    /\ tasks["list"][1].delay = ShortBackoff
    /\ tasks["list"][1].wire = [method |-> "post", url |-> WiqlUrl, data |-> Query, hasData |-> TRUE]

\* C6: an attempt that got status 503 is followed by the long backoff; the
\* retry is possible whatever the number of attempts made, and the next step
\* of the call is a new attempt with the same method, URL and body.
C6_Retried503 ==
    /\ [](\A c \in AllCalls :
            (Live(c[1], c[2]) /\ tasks[c[1]][c[2]].last.status = 503) =>
               /\ tasks[c[1]][c[2]].st = "sleep"
               /\ tasks[c[1]][c[2]].delay = LongBackoff
               /\ ENABLED request_url_retry(c[1], c[2]))
    /\ [][\A c \in AllCalls :
            (Live(c[1], c[2]) /\ tasks[c[1]][c[2]].last.status = 503) =>
               /\ c[2] \in DOMAIN tasks'[c[1]]
               /\ tasks'[c[1]][c[2]] # tasks[c[1]][c[2]] =>
                    /\ tasks'[c[1]][c[2]].st = "inflight"
                    /\ tasks'[c[1]][c[2]].attempts = tasks[c[1]][c[2]].attempts + 1
                    /\ tasks'[c[1]][c[2]].delay = LongBackoff
                    /\ tasks'[c[1]][c[2]].wire = tasks[c[1]][c[2]].wire]_vars

C6_Witness ==
    /\ tasks["list"][1].st = "inflight"
    /\ tasks["list"][1].attempts = 3
    /\ tasks["list"][1].delay = LongBackoff
    /\ tasks["list"][1].wire =
         [method |-> "get", url |-> CommentsUrl(2), data |-> NoData, hasData |-> FALSE]

C9_StagesInOrder ==
    /\ (submitted["detail"] > 0 \/ tasks["detail"] # <<>>) =>
         (items_list # NoBody /\ tasks["list"] = <<>> /\ completed["list"] = 1)
    /\ (items_details # <<>> \/ mapped) => completed["detail"] = submitted["detail"]
    /\ (submitted["comment"] > 0 \/ tasks["comment"] # <<>>) =>
         /\ mapped
         /\ Len(work_items) = Len(items_details)
         /\ submitted["comment"] = Len(work_items)
    /\ pc \in {"idle", "listing"} => (submitted["detail"] = 0 /\ ~mapped)
    /\ pc = "details" => (~mapped /\ submitted["comment"] = 0)

C9_Witness ==
    /\ pc = "comments"
    /\ Len(tasks["comment"]) = 2
    /\ tasks["comment"][1].st = "inflight"
    /\ tasks["comment"][2].st = "created"
    /\ completed["detail"] = 2

\* C10: a listing of N references, duplicates included, leads to exactly N
\* detail calls, to N mapped items and N comment calls once mapped, and to N
\* returned work items; the listing itself is one call.
C10_CardinalityPreserved ==
    /\ submitted["list"] <= 1
    /\ items_list # NoBody => submitted["detail"] = Len(Listed)
    /\ items_list = NoBody => submitted["detail"] = 0
    /\ mapped => (Len(work_items) = Len(Listed) /\ submitted["comment"] = Len(Listed))
    /\ ~mapped => submitted["comment"] = 0
    /\ pc = "returned" => Len(returned) = Len(Listed)

C10_Witness ==
    /\ pc = "returned"
    /\ Len(Listed) = 2
    /\ Listed[1] = Listed[2]
    /\ submitted["detail"] = 2
    /\ submitted["comment"] = 2
    /\ Len(returned) = 2

\* the n-th day after a date, counted day by day on the calendar
NextDay(date) ==
    IF date.d < DaysInMonth(date.y, date.m) THEN [date EXCEPT !.d = @ + 1]
    ELSE IF date.m < 12 THEN [date EXCEPT !.m = @ + 1, !.d = 1]
    ELSE [y |-> date.y + 1, m |-> 1, d |-> 1]

RECURSIVE DayAfter(_, _)
DayAfter(date, n) == IF n = 0 THEN date ELSE DayAfter(NextDay(date), n - 1)

StartDate == [y |-> kwargs.process_date[1] * 1000 + kwargs.process_date[2] * 100
                     + kwargs.process_date[3] * 10 + kwargs.process_date[4],
              m |-> kwargs.process_date[5] * 10 + kwargs.process_date[6],
              d |-> kwargs.process_date[7] * 10 + kwargs.process_date[8]]
EndDate == DayAfter(StartDate, kwargs.days_length)
Digits2(n) == <<n \div 10, n % 10>>

\* C12: the listing query built for start date d and window n keeps the
\* work items changed at or after d (>= d) and before the n-th day after d
\* (< d+n); for d = 2024-03-18 and n = 10 the upper bound is 2024-03-28.
C12_WindowHalfOpen ==
    query # NoQuery =>
      /\ query.lowerOp = ">=" /\ query.lower = kwargs.process_date
      /\ query.upperOp = "<"
      /\ SubSeq(query.upper, 5, 6) = Digits2(EndDate.m)
      /\ SubSeq(query.upper, 7, 8) = Digits2(EndDate.d)
      /\ SubSeq(query.upper, 1, 4) = <<EndDate.y \div 1000, (EndDate.y \div 100) % 10,
                                        (EndDate.y \div 10) % 10, EndDate.y % 10>>
      /\ kwargs = TestAdoArgs => query.upper = <<2, 0, 2, 4, 0, 3, 2, 8>>

C12_Witness ==
    /\ query # NoQuery
    /\ kwargs.process_date = <<2, 0, 2, 3, 1, 2, 2, 5>>
    /\ kwargs.days_length = 10
    /\ query.upper = <<2, 0, 2, 4, 0, 1, 0, 4>>

\* the comment task of work item i is alive and has got its response
Answered(i) == Live("comment", i) /\ tasks["comment"][i].st = "returned" /\ tasks["comment"][i].arg = i
ReportsNone(body) == body.has = {} \/ (body.totalCount = 0 /\ body.count = 0 /\ body.comments = <<>>)

\* C11: every work item that format_work_items returns has its comments
\* set, never left unset; an item whose comments response reports no
\* comment, or comes without totalCount, count and comments, carries the
\* comment set with totalCount 0, count 0 and no comment.
C11_CommentsNeverNull ==
    /\ \A i \in DOMAIN returned :
         /\ returned[i].comments.set
         /\ returned[i].comments.totalCount >= 0
         /\ returned[i].comments.count >= 0
         /\ Len(returned[i].comments.comments) = returned[i].comments.count
    /\ \A i \in DOMAIN work_items :
         (Answered(i) /\ ReportsNone(tasks["comment"][i].result)) =>
            /\ work_items[i].comments.set
            /\ work_items[i].comments.totalCount = 0
            /\ work_items[i].comments.count = 0
            /\ work_items[i].comments.comments = <<>>

C11_Witness ==
    /\ pc = "comments"
    /\ Len(work_items) = 2
    /\ Answered(1) /\ tasks["comment"][1].result.has = {}
    /\ Answered(2) /\ tasks["comment"][2].result.has = CommentKeys
                   /\ tasks["comment"][2].result.count = 0

\* C13: a listing with no reference is not an error: the detail stage
\* returns the empty sequence, format_work_items goes on to close and
\* returns the empty list, and no detail or comment request is issued.
C13_EmptyListing ==
    (items_list # NoBody /\ Listed = <<>>) =>
      /\ pc \in {"closing", "returned"}
      /\ error = NoError
      /\ items_details = <<>> /\ work_items = <<>> /\ work_items_comments = <<>>
      /\ submitted["detail"] = 0 /\ submitted["comment"] = 0
      /\ tasks["detail"] = <<>> /\ tasks["comment"] = <<>>
      /\ pc = "returned" => (returned = <<>> /\ closeCount = 1)

C13_Witness ==
    /\ pc = "returned"
    /\ items_list # NoBody /\ Listed = <<>>
    /\ returned = <<>>
    /\ submitted = [s \in Stages |-> IF s = "list" THEN 1 ELSE 0]

\* the backoff that belongs to a transient failure
BackoffOf(reply) == IF reply.exc = "none" THEN LongBackoff ELSE ShortBackoff
TheCall == tasks["list"][1]
Success == [exc |-> "none", status |-> 200, json |-> TRUE]

\* C14: a request that meets k transient failures, in any mix, and then a
\* 2xx response returns the decoded body of that response after exactly
\* k + 1 attempts; every retry comes after the backoff of the failure it
\* follows (k = 1 with a 503: one retry, after the long backoff).
C14_ReturnsAfterFailures ==
    /\ [](/\ TheCall.st = "returned" =>
               /\ TheCall.attempts = outages + 1
               /\ TheCall.last = Success
               /\ TheCall.result \in Bodies(TheCall.url)
          /\ TheCall.st = "sleep" =>
               /\ TheCall.attempts = outages
               /\ TheCall.delay = BackoffOf(TheCall.last)
               /\ ENABLED request_url_retry("list", 1)
          /\ TheCall.st = "inflight" =>
               /\ TheCall.attempts = outages + 1
               /\ (outages = 0) = (TheCall.delay = 0))
    /\ [][(TheCall.st = "sleep" /\ tasks' # tasks) =>
            /\ tasks'["list"][1].st = "inflight"
            /\ tasks'["list"][1].attempts = TheCall.attempts + 1
            /\ tasks'["list"][1].delay = BackoffOf(TheCall.last)
            /\ outages' = outages]_vars

C14_Witness ==
    /\ TheCall.st = "returned"
    /\ outages = 2
    /\ TheCall.attempts = 3
    /\ TheCall.result.kind = "listing"

\* C15: send_request called with db_params that lacks database_name or
\* table_name raises ValueError out of prepare_request, and no attempt of
\* an HTTP request is made.
C15_MissingKeysNoRequest ==
    (pc # "prompt" /\ ~(RequiredKeys \subseteq prompt_args.db_params)) =>
      /\ pc = "raised"
      /\ error = [type |-> "ValueError", status |-> 0]
      /\ prompt_request = NoPrompt
      /\ submitted["list"] = 0
      /\ tasks["list"] = <<>>

C15_Witness ==
    /\ pc = "raised"
    /\ prompt_args.db_params = {"table_name"}
    /\ error.type = "ValueError"
    /\ submitted["list"] = 0

FanOut == {"detail", "comment"}
Slots == 1..(MaxItems + 1)
HasRaised(s) == \E i \in DOMAIN tasks[s] : tasks[s][i].st = "raised"
Running(s, i) == Live(s, i) /\ tasks[s][i].st \in {"created", "inflight", "sleep"}

\* C16 (as stated): when a fan-out stage has reported the failure of one of
\* its requests, every task of the batch has finished; the caller does not
\* see the failure while a task of the batch is in flight or in backoff.
C16_ReportedAfterAllFinished ==
    \A s \in FanOut :
       (pc = "raised" /\ HasRaised(s)) => \A i \in DOMAIN tasks[s] : ~Running(s, i)

\* C16 (amended): a fan-out stage can report the failure of one of its
\* requests as soon as that request has failed, whatever the other tasks
\* of the batch are doing; what it reports is the error of the task that
\* failed first, and at most all the other tasks were still running.
C16_ReportedAtFirstFailure ==
    \A s \in FanOut :
       /\ (pc = StagePc(s) /\ HasRaised(s)) => ENABLED gather_raise(s)
       /\ (pc = "raised" /\ tasks[s] # <<>>) =>
            /\ HasRaised(s)
            /\ doneOrder[s] # <<>>
            /\ \E k \in DOMAIN doneOrder[s] :
                 /\ tasks[s][doneOrder[s][k]].st = "raised"
                 /\ error = tasks[s][doneOrder[s][k]].err
                 /\ \A j \in 1..(k - 1) : tasks[s][doneOrder[s][j]].st = "returned"
            /\ left_running < Len(tasks[s])

C16_Witness ==
    /\ pc = "raised"
    /\ left_running = 1
    /\ Len(tasks["detail"]) = 2
    /\ tasks["detail"][1].st = "raised"
    /\ tasks["detail"][2].st = "sleep"
    /\ error = tasks["detail"][1].err

Sleeping(s, i) == Live(s, i) /\ tasks[s][i].st = "sleep"

\* C18: a backoff wait holds up the request that sleeps and nothing else:
\* while a task of a batch sleeps, every other task of the batch can take
\* its next step (first attempt, end of an attempt, retry), and such a step
\* leaves the sleeping task as it is.
C18_BackoffBlocksOnlyItself ==
    /\ [](\A s \in FanOut : \A j \in DOMAIN tasks[s] :
            (\E i \in DOMAIN tasks[s] : i # j /\ tasks[s][i].st = "sleep") =>
              CASE tasks[s][j].st = "created" -> ENABLED request_url_start(s, j)
                [] tasks[s][j].st = "inflight" -> ENABLED request_url_reply(s, j)
                [] tasks[s][j].st = "sleep" -> ENABLED request_url_retry(s, j)
                [] OTHER -> TRUE)
    /\ [][\A s \in FanOut : \A i \in DOMAIN tasks[s] :
            tasks[s][i].st = "sleep" =>
              /\ DOMAIN tasks'[s] = DOMAIN tasks[s]
              /\ (\E j \in DOMAIN tasks[s] \ {i} : tasks'[s][j] # tasks[s][j]) =>
                    tasks'[s][i] = tasks[s][i]]_vars

C18_Witness ==
    /\ pc = "comments"
    /\ Len(tasks["comment"]) = 2
    /\ tasks["comment"][1].st = "sleep"
    /\ tasks["comment"][1].delay = LongBackoff
    /\ tasks["comment"][2].st = "returned"
    /\ tasks["comment"][2].attempts = 2
    /\ work_items[2].comments.set /\ ~work_items[1].comments.set

\* C19: the fan-out is not capped.  A stage submits one request per input
\* before any of them has to complete, and a request that has not made its
\* first attempt can make it whatever the other requests of the batch are
\* doing; the state with all requests of the batch in flight is reachable.
C19_FanOutUncapped ==
    /\ pc = "details" => (Len(tasks["detail"]) = Len(Listed) /\ submitted["detail"] = Len(Listed))
    /\ pc = "comments" => (Len(tasks["comment"]) = Len(work_items)
                            /\ submitted["comment"] = Len(work_items))
    /\ \A s \in FanOut : \A i \in Slots :
         (Live(s, i) /\ tasks[s][i].st = "created") => ENABLED request_url_start(s, i)

C19_Witness ==
    /\ pc = "details"
    /\ Len(tasks["detail"]) = MaxItems
    /\ \A i \in 1..MaxItems : tasks["detail"][i].st = "inflight" /\ tasks["detail"][i].attempts = 1
    /\ completed["detail"] = 0

\* C20: a work item whose comments are populated has its system and custom
\* mapping complete: comments are requested and attached only for the
\* items parse_work_items has returned.
C20_MappedBeforeComments ==
    /\ \A i \in DOMAIN work_items :
         work_items[i].comments.set => (mapped /\ work_items[i].system)
    /\ (tasks["comment"] # <<>> \/ submitted["comment"] > 0) =>
         (mapped /\ \A i \in DOMAIN work_items : work_items[i].system)

C20_Witness ==
    /\ pc = "comments"
    /\ mapped
    /\ Len(work_items) = 2
    /\ work_items[1].comments.set /\ work_items[1].system
    /\ work_items[1].comments.count = 1
    /\ ~work_items[2].comments.set

WithComments == {i \in DOMAIN work_items : work_items[i].comments.set}

\* C21: each work item's comments are assigned once, by the comment task
\* created for that item, from the response to the comments URL of the
\* item's own id: every comment task that has returned has set the comments
\* of one item of its own, and no task has written another item's, whatever
\* the order in which the tasks ran.
C21_CommentsByOwnTask ==
    /\ Cardinality(WithComments) = completed["comment"]
    /\ \A i \in DOMAIN work_items :
         /\ work_items[i].comments.set =>
               work_items[i].comments.url = CommentsUrl(work_items[i].id)
         /\ Live("comment", i) =>
              /\ tasks["comment"][i].arg = i
              /\ tasks["comment"][i].url = CommentsUrl(work_items[i].id)
              /\ work_items[i].comments.set = (tasks["comment"][i].st = "returned")
              /\ work_items[i].comments.set =>
                    work_items[i].comments = CommentsSchema(tasks["comment"][i].result)

C21_Witness ==
    /\ pc = "comments"
    /\ Len(work_items) = 2
    /\ work_items[1].id = work_items[2].id
    /\ doneOrder["comment"] = <<2, 1>>
    /\ work_items[1].comments.count = 1 /\ work_items[2].comments.count = 0
    /\ completed["comment"] = 2

InvalidPayload == \E i \in DOMAIN items_details : ~items_details[i].valid

\* C22: when the mapping fails on a payload of the detail list, the run
\* ends with the validation error for the whole batch: nothing is mapped,
\* every detail request was made once and none again, no comment request
\* is issued, and no step follows.
C22_MappingFailureEndsRun ==
    /\ InvalidPayload =>
         /\ pc = "raised"
         /\ error = [type |-> "ValidationError", status |-> 0]
         /\ ~mapped /\ work_items = <<>> /\ returned = <<>>
         /\ submitted["detail"] = Len(Listed)
         /\ completed["detail"] = Len(Listed)
         /\ submitted["comment"] = 0
         /\ \A s \in Stages \ {"list"} : tasks[s] = <<>>
         /\ ~ENABLED Next
    /\ error.type = "ValidationError" => InvalidPayload

C22_Witness ==
    /\ pc = "raised"
    /\ Len(items_details) = 2
    /\ items_details[1].valid /\ ~items_details[2].valid
    /\ error.type = "ValidationError"
    /\ outages = 1

\* C23: within a run of format_work_items no attempt is made on a closed
\* client: when close is called, and when the run has returned, every
\* request of the run has returned its body; none is in flight, in backoff
\* or still to start.
C23_NoAttemptOnClosedTransport ==
    calls = 1 =>
      /\ pc \in {"closing", "returned"} =>
           \A s \in Stages : tasks[s] = <<>> /\ submitted[s] = completed[s]
      /\ closed => pc = "returned"

C23_Witness ==
    /\ pc = "closing"
    /\ ~closed
    /\ submitted["comment"] = 2 /\ completed["comment"] = 2
    /\ outages = 2

\* C24: an instance completes at most one extraction.  close runs once and
\* the client stays closed; a second call of format_work_items after the
\* first has returned makes one listing attempt, on the closed client, and
\* ends with its error, without a retry and without a result.
C24_SecondCallFails ==
    /\ closeCount <= 1
    /\ closed = (closeCount = 1)
    /\ calls = 2 =>
         /\ closed
         /\ pc = "raised"
         /\ error = [type |-> "RuntimeError", status |-> 0]
         /\ Len(tasks["list"]) = 1
         /\ tasks["list"][1].st = "raised"
         /\ tasks["list"][1].attempts = 1
         /\ tasks["list"][1].failures = 0
         /\ returned = <<>>
         /\ submitted = [s \in Stages |-> IF s = "list" THEN 1 ELSE 0]
         /\ completed = [s \in Stages |-> 0]
         /\ ~ENABLED Next

C24_Witness ==
    /\ calls = 2
    /\ closed
    /\ pc = "raised"
    /\ error.type = "RuntimeError"
    /\ tasks["list"][1].wire = [method |-> "post", url |-> WiqlUrl, data |-> Query, hasData |-> TRUE]

\* a failure that is neither an httpx.NetworkError nor an HTTPStatusError
IsOtherFailure(reply) ==
    \/ reply.exc \notin NetworkErrors \cup {"none", "pending"}
    \/ reply.exc = "none" /\ reply.status = 200 /\ ~reply.json

\* C25: an attempt that fails with anything but a network error or an HTTP
\* status error (a timeout that is no network error, a 2xx body that is not
\* JSON) ends the call at once with that error: no backoff, no further
\* attempt, and the call does not change afterwards.
C25_OtherFailuresPropagate ==
    /\ [](IsOtherFailure(TheCall.last) =>
            /\ TheCall.st = "raised"
            /\ TheCall.err = [type |-> IF TheCall.last.exc = "none" THEN "JSONDecodeError"
                                       ELSE TheCall.last.exc,
                              status |-> 0]
            /\ TheCall.delay = 0
            /\ TheCall.attempts = outages + 1
            /\ ~ENABLED request_url_retry("list", 1)
            /\ ~ENABLED request_url_reply("list", 1))
    /\ [][IsOtherFailure(TheCall.last) => tasks' = tasks]_vars

C25_Witness ==
    /\ TheCall.st = "raised"
    /\ TheCall.err = [type |-> "JSONDecodeError", status |-> 0]
    /\ TheCall.attempts = 3
    /\ TheCall.url.kind = "comments"

C27_PollerResponds ==
    /\ poller.day_done = poller.day_items
    /\ poller.visited = [i \in 1..Len(poller.visited) |-> i - 1]
    /\ poller.pc = "done" =>
         /\ Len(poller.visited) = PollDays + 1
         /\ poller.response = "HttpResponse"

====
